---- MODULE Spec2Model ----
(***************************************************************************)
(* Vision-to-Speech Assistant (src/main.py): the availability probes, the  *)
(* description generator, the speech synthesizer and the Streamlit script  *)
(* run (main) that drives them, for one or several browser sessions that   *)
(* share the working directory and so the file speech.mp3.                 *)
(*                                                                         *)
(* Text is a sequence of character codes, audio and images sequences of    *)
(* bytes.  An optional value that is a sequence is the empty tuple (None)  *)
(* or a one-element tuple holding it; an optional string is "None" or it.  *)
(***************************************************************************)
EXTENDS Integers, Sequences, FiniteSets, TLC

\* One Streamlit script thread per browser session; all of them run in one
\* process with one working directory.
Sessions == {"s1", "s2"}
MainSession == "s1"

None == "None"
NoneT == << >>
SomeT(x) == << x >>
\* Truthy as "is not None"
NotNone(d) == d # NoneT

\* Python truthiness of an optional sequence: None and the empty one are falsy.
Truthy(d) == d # NoneT /\ Len(d[1]) > 0

PrimaryModel == "qwen2-vl-7b-instruct"
FallbackModel == "qwen-vl-max"
TtsModel == "tts-1-hd"
ProbeVoice == "alloy"
Voices == <<"alloy", "echo", "fable", "onyx", "nova", "shimmer">>
VoiceSet == {Voices[i] : i \in 1..Len(Voices)}
SpeechPath == "speech.mp3"
max_length == 4096

\* "Test"
TestText == <<84, 101, 115, 116>>
\* "Describe the content of the image in detail."
PromptText ==
  <<68, 101, 115, 99, 114, 105, 98, 101, 32, 116, 104, 101, 32, 99, 111, 110,
    116, 101, 110, 116, 32, 111, 102, 32, 116, 104, 101, 32, 105, 109, 97,
    103, 101, 32, 105, 110, 32, 100, 101, 116, 97, 105, 108, 46>>
\* "data:image/png;base64,"
DataUriPrefix ==
  <<100, 97, 116, 97, 58, 105, 109, 97, 103, 101, 47, 112, 110, 103, 59, 98,
    97, 115, 101, 54, 52, 44>>

(***************************************************************************)
(* Bounds of the model.                                                    *)
(***************************************************************************)
\* The longest audio body the speech backend answers with, in bytes.
MaxAudioLen == 2
\* The longest text handed to text_to_speech directly, in whole chunks.
MaxChunks == 2

AudioByteVals == {17, 42}
Audios == UNION {[1..n -> AudioByteVals] : n \in 0..MaxAudioLen}

(***************************************************************************)
(* Images.  An upload is absent, or a file that PIL cannot identify, or a  *)
(* decodable bitmap with a mode.  PIL's PNG writer knows the modes below   *)
(* and raises OSError ("cannot write mode CMYK as PNG") for the others; a  *)
(* JPEG upload can be CMYK.  The PNG container is abstracted to its        *)
(* signature followed by the pixel bytes.                                  *)
(***************************************************************************)
NoUpload == [kind |-> "none", mode |-> None, pixels |-> << >>]
CorruptUpload == [kind |-> "corrupt", mode |-> None, pixels |-> << >>]
RgbUpload == [kind |-> "bitmap", mode |-> "RGB", pixels |-> <<7>>]
RgbaUpload == [kind |-> "bitmap", mode |-> "RGBA", pixels |-> <<7, 9>>]
CmykUpload == [kind |-> "bitmap", mode |-> "CMYK", pixels |-> <<7, 9, 11>>]
Uploads == {NoUpload, CorruptUpload, RgbUpload, RgbaUpload, CmykUpload}
PngModes == {"1", "L", "LA", "I", "P", "RGB", "RGBA"}
PngSignature == <<137, 80, 78, 71, 13, 10, 26, 10>>

\* image.save(buffered, format="PNG") succeeds
CanSavePng(img) == img.kind = "bitmap" /\ img.mode \in PngModes
PngBytes(img) == PngSignature \o img.pixels

\* base64.b64encode(...).decode("utf-8"): the standard alphabet, "=" padding.
B64Char(i) ==
  IF i < 26 THEN 65 + i
  ELSE IF i < 52 THEN 97 + (i - 26)
  ELSE IF i < 62 THEN 48 + (i - 52)
  ELSE IF i = 62 THEN 43 ELSE 47

RECURSIVE b64encode(_)
b64encode(bytes) ==
  IF Len(bytes) = 0 THEN << >>
  ELSE IF Len(bytes) = 1 THEN
    <<B64Char(bytes[1] \div 4), B64Char((bytes[1] % 4) * 16), 61, 61>>
  ELSE IF Len(bytes) = 2 THEN
    <<B64Char(bytes[1] \div 4),
      B64Char((bytes[1] % 4) * 16 + bytes[2] \div 16),
      B64Char((bytes[2] % 16) * 4), 61>>
  ELSE
    <<B64Char(bytes[1] \div 4),
      B64Char((bytes[1] % 4) * 16 + bytes[2] \div 16),
      B64Char((bytes[2] % 16) * 4 + bytes[3] \div 64),
      B64Char(bytes[3] % 64)>>
    \o b64encode(SubSeq(bytes, 4, Len(bytes)))

encode_image(img) == b64encode(PngBytes(img))

(***************************************************************************)
(* The vision backend's answers to a generation request: a list of         *)
(* choices, each with an optional message content.                         *)
(***************************************************************************)
ChatContents == {NoneT, SomeT(<< >>), SomeT(<<65>>), SomeT(<<72, 105>>)}
ChatResponses == UNION {[1..n -> ChatContents] : n \in 0..2}

\* chunks = [text[i:i + max_length] for i in range(0, len(text), max_length)]
Min(a, b) == IF a < b THEN a ELSE b
chunks(text) ==
  [j \in 1..((Len(text) + max_length - 1) \div max_length) |->
     SubSeq(text, (j - 1) * max_length + 1, Min(j * max_length, Len(text)))]

VARIABLES
  pc,               \* where each session's script thread stands
  qwen_available, qwen_model, tts_available, tts_model,   \* main's probe results
  uploaded_image, image, voice_type,                      \* main's widgets
  description, speech_file_path, audio_bytes,             \* main's results
  base64_image, response,       \* generate_text_from_image's locals
  tts_response, offset,         \* text_to_speech's response and file position
  chat_reqs, speech_reqs,       \* requests a run has sent to each backend
  reports,                      \* st.warning / st.error / st.success of a run
  displayed, offered,           \* st.write(description); st.audio + download
  file,                         \* speech.mp3: absent, or its bytes
  file_writers                  \* the sessions whose writes made that content

vars == <<pc, qwen_available, qwen_model, tts_available, tts_model,
          uploaded_image, image, voice_type, description, speech_file_path,
          audio_bytes, base64_image, response, tts_response, offset,
          chat_reqs, speech_reqs, reports, displayed, offered, file,
          file_writers>>

ChatReq(model, content, max_tokens, ok) ==
  [model |-> model, content |-> content, max_tokens |-> max_tokens, ok |-> ok]
SpeechReq(model, voice, input, ok) ==
  [model |-> model, voice |-> voice, input |-> input, ok |-> ok]

ProbeContent == <<[type |-> "text", text |-> TestText]>>
GenContent(b64) ==
  <<[type |-> "text", text |-> PromptText],
    [type |-> "image_url", text |-> DataUriPrefix \o b64]>>

Fresh(v) == [s \in Sessions |-> v]

Init ==
  /\ pc = Fresh("idle")
  /\ qwen_available = Fresh(FALSE) /\ qwen_model = Fresh(None)
  /\ tts_available = Fresh(FALSE) /\ tts_model = Fresh(None)
  /\ uploaded_image = Fresh(NoUpload) /\ image = Fresh(NoUpload)
  /\ voice_type = Fresh(None)
  /\ description = Fresh(NoneT) /\ speech_file_path = Fresh(None)
  /\ audio_bytes = Fresh(NoneT)
  /\ base64_image = Fresh(NoneT) /\ response = Fresh(NoneT)
  /\ tts_response = Fresh(NoneT) /\ offset = Fresh(0)
  /\ chat_reqs = Fresh(<< >>) /\ speech_reqs = Fresh(<< >>)
  /\ reports = Fresh({})
  /\ displayed = Fresh(NoneT) /\ offered = Fresh(FALSE)
  /\ file = NoneT
  /\ file_writers = {}

fileVars == <<file, file_writers>>
genVars == <<base64_image, response>>
ttsVars == <<tts_response, offset>>
widgetVars == <<uploaded_image, image, voice_type>>
uiVars == <<displayed, offered>>

(***************************************************************************)
(* main, lines 115-139: a user interaction (or the first page load) runs   *)
(* the script from the top with fresh locals.                              *)
(***************************************************************************)
MainStart(s) ==
  /\ pc[s] \in {"idle", "done", "crashed"}
  /\ pc' = [pc EXCEPT ![s] = "probe_primary"]
  /\ qwen_available' = [qwen_available EXCEPT ![s] = FALSE]
  /\ qwen_model' = [qwen_model EXCEPT ![s] = None]
  /\ tts_available' = [tts_available EXCEPT ![s] = FALSE]
  /\ tts_model' = [tts_model EXCEPT ![s] = None]
  /\ uploaded_image' = [uploaded_image EXCEPT ![s] = NoUpload]
  /\ image' = [image EXCEPT ![s] = NoUpload]
  /\ voice_type' = [voice_type EXCEPT ![s] = None]
  /\ description' = [description EXCEPT ![s] = NoneT]
  /\ speech_file_path' = [speech_file_path EXCEPT ![s] = None]
  /\ audio_bytes' = [audio_bytes EXCEPT ![s] = NoneT]
  /\ base64_image' = [base64_image EXCEPT ![s] = NoneT]
  /\ response' = [response EXCEPT ![s] = NoneT]
  /\ tts_response' = [tts_response EXCEPT ![s] = NoneT]
  /\ offset' = [offset EXCEPT ![s] = 0]
  /\ chat_reqs' = [chat_reqs EXCEPT ![s] = << >>]
  /\ speech_reqs' = [speech_reqs EXCEPT ![s] = << >>]
  /\ reports' = [reports EXCEPT ![s] = {}]
  /\ displayed' = [displayed EXCEPT ![s] = NoneT]
  /\ offered' = [offered EXCEPT ![s] = FALSE]
  /\ UNCHANGED fileVars

(***************************************************************************)
(* check_qwen_model_availability, lines 24-43.  Each request is answered   *)
(* or raises; the result lands in main's qwen_available, qwen_model.       *)
(***************************************************************************)
\* QwenPrimaryOk without its return: the probe goes on to the fallback
QwenPrimaryOk_NoReturn(s) ==
  /\ pc[s] = "probe_primary"
  /\ chat_reqs' = [chat_reqs EXCEPT ![s] =
                     Append(@, ChatReq(PrimaryModel, ProbeContent, 1, TRUE))]
  /\ qwen_available' = [qwen_available EXCEPT ![s] = TRUE]
  /\ qwen_model' = [qwen_model EXCEPT ![s] = PrimaryModel]
  /\ pc' = [pc EXCEPT ![s] = "probe_fallback"]
  /\ UNCHANGED <<tts_available, tts_model, widgetVars, description,
                 speech_file_path, audio_bytes, genVars, ttsVars, speech_reqs,
                 reports, uiVars, fileVars>>

QwenPrimaryOk(s) ==
  /\ pc[s] = "probe_primary"
  /\ chat_reqs' = [chat_reqs EXCEPT ![s] =
                     Append(@, ChatReq(PrimaryModel, ProbeContent, 1, TRUE))]
  /\ qwen_available' = [qwen_available EXCEPT ![s] = TRUE]
  /\ qwen_model' = [qwen_model EXCEPT ![s] = PrimaryModel]
  /\ pc' = [pc EXCEPT ![s] = "main_143"]
  /\ UNCHANGED <<tts_available, tts_model, widgetVars, description,
                 speech_file_path, audio_bytes, genVars, ttsVars, speech_reqs,
                 reports, uiVars, fileVars>>

QwenPrimaryFail(s) ==
  /\ pc[s] = "probe_primary"
  /\ chat_reqs' = [chat_reqs EXCEPT ![s] =
                     Append(@, ChatReq(PrimaryModel, ProbeContent, 1, FALSE))]
  /\ reports' = [reports EXCEPT ![s] = @ \cup {"warning: primary not available"}]
  /\ pc' = [pc EXCEPT ![s] = "probe_fallback"]
  /\ UNCHANGED <<qwen_available, qwen_model, tts_available, tts_model,
                 widgetVars, description, speech_file_path, audio_bytes,
                 genVars, ttsVars, speech_reqs, uiVars, fileVars>>

QwenFallbackOk(s) ==
  /\ pc[s] = "probe_fallback"
  /\ chat_reqs' = [chat_reqs EXCEPT ![s] =
                     Append(@, ChatReq(FallbackModel, ProbeContent, 1, TRUE))]
  /\ qwen_available' = [qwen_available EXCEPT ![s] = TRUE]
  /\ qwen_model' = [qwen_model EXCEPT ![s] = FallbackModel]
  /\ pc' = [pc EXCEPT ![s] = "main_143"]
  /\ UNCHANGED <<tts_available, tts_model, widgetVars, description,
                 speech_file_path, audio_bytes, genVars, ttsVars, speech_reqs,
                 reports, uiVars, fileVars>>

QwenFallbackFail(s) ==
  /\ pc[s] = "probe_fallback"
  /\ chat_reqs' = [chat_reqs EXCEPT ![s] =
                     Append(@, ChatReq(FallbackModel, ProbeContent, 1, FALSE))]
  /\ reports' = [reports EXCEPT ![s] = @ \cup {"error: fallback not available"}]
  /\ qwen_available' = [qwen_available EXCEPT ![s] = FALSE]
  /\ qwen_model' = [qwen_model EXCEPT ![s] = None]
  /\ pc' = [pc EXCEPT ![s] = "main_143"]
  /\ UNCHANGED <<tts_available, tts_model, widgetVars, description,
                 speech_file_path, audio_bytes, genVars, ttsVars, speech_reqs,
                 uiVars, fileVars>>

check_qwen_model_availability(s) ==
  \/ QwenPrimaryOk(s)
  \/ QwenPrimaryFail(s)
  \/ QwenFallbackOk(s)
  \/ QwenFallbackFail(s)

(***************************************************************************)
(* main, lines 142-147.                                                    *)
(***************************************************************************)
\* MainNoVision without its return: main goes on to the speech probe
MainNoVision_NoReturn(s) ==
  /\ pc[s] = "main_143"
  /\ ~qwen_available[s]
  /\ reports' = [reports EXCEPT ![s] = @ \cup {"error: no vision model"}]
  /\ pc' = [pc EXCEPT ![s] = "probe_tts"]
  /\ UNCHANGED <<qwen_available, qwen_model, tts_available, tts_model,
                 widgetVars, description, speech_file_path, audio_bytes,
                 genVars, ttsVars, chat_reqs, speech_reqs, uiVars, fileVars>>

MainNoVision(s) ==
  /\ pc[s] = "main_143"
  /\ ~qwen_available[s]
  /\ reports' = [reports EXCEPT ![s] = @ \cup {"error: no vision model"}]
  /\ pc' = [pc EXCEPT ![s] = "done"]
  /\ UNCHANGED <<qwen_available, qwen_model, tts_available, tts_model,
                 widgetVars, description, speech_file_path, audio_bytes,
                 genVars, ttsVars, chat_reqs, speech_reqs, uiVars, fileVars>>

MainVision(s) ==
  /\ pc[s] = "main_143"
  /\ qwen_available[s]
  /\ reports' = [reports EXCEPT ![s] = @ \cup {"success: using vision model"}]
  /\ pc' = [pc EXCEPT ![s] = "probe_tts"]
  /\ UNCHANGED <<qwen_available, qwen_model, tts_available, tts_model,
                 widgetVars, description, speech_file_path, audio_bytes,
                 genVars, ttsVars, chat_reqs, speech_reqs, uiVars, fileVars>>

(***************************************************************************)
(* check_openai_tts_availability, lines 46-57.                             *)
(***************************************************************************)
TtsProbeOk(s) ==
  /\ pc[s] = "probe_tts"
  /\ speech_reqs' = [speech_reqs EXCEPT ![s] =
                       Append(@, SpeechReq(TtsModel, ProbeVoice, TestText, TRUE))]
  /\ tts_available' = [tts_available EXCEPT ![s] = TRUE]
  /\ tts_model' = [tts_model EXCEPT ![s] = TtsModel]
  /\ pc' = [pc EXCEPT ![s] = "main_153"]
  /\ UNCHANGED <<qwen_available, qwen_model, widgetVars, description,
                 speech_file_path, audio_bytes, genVars, ttsVars, chat_reqs,
                 reports, uiVars, fileVars>>

\* TtsProbeFail returning the success pair from the except branch
TtsProbeFail_ReturnsTrue(s) ==
  /\ pc[s] = "probe_tts"
  /\ speech_reqs' = [speech_reqs EXCEPT ![s] =
                       Append(@, SpeechReq(TtsModel, ProbeVoice, TestText, FALSE))]
  /\ reports' = [reports EXCEPT ![s] =
                   @ \cup {"error: tts not available", "warning: text only"}]
  /\ tts_available' = [tts_available EXCEPT ![s] = TRUE]
  /\ tts_model' = [tts_model EXCEPT ![s] = TtsModel]
  /\ pc' = [pc EXCEPT ![s] = "main_153"]
  /\ UNCHANGED <<qwen_available, qwen_model, widgetVars, description,
                 speech_file_path, audio_bytes, genVars, ttsVars, chat_reqs,
                 uiVars, fileVars>>

TtsProbeFail(s) ==
  /\ pc[s] = "probe_tts"
  /\ speech_reqs' = [speech_reqs EXCEPT ![s] =
                       Append(@, SpeechReq(TtsModel, ProbeVoice, TestText, FALSE))]
  /\ reports' = [reports EXCEPT ![s] =
                   @ \cup {"error: tts not available", "warning: text only"}]
  /\ tts_available' = [tts_available EXCEPT ![s] = FALSE]
  /\ tts_model' = [tts_model EXCEPT ![s] = None]
  /\ pc' = [pc EXCEPT ![s] = "main_153"]
  /\ UNCHANGED <<qwen_available, qwen_model, widgetVars, description,
                 speech_file_path, audio_bytes, genVars, ttsVars, chat_reqs,
                 uiVars, fileVars>>

check_openai_tts_availability(s) ==
  \/ TtsProbeOk(s)
  \/ TtsProbeFail(s)

(***************************************************************************)
(* main, lines 153-162: the widgets' values are the user's; the voice      *)
(* selector exists only when the speech backend is available.  Image.open  *)
(* raises on a file PIL cannot identify, and nothing in main catches it.   *)
(***************************************************************************)
MainWidgets(s) ==
  /\ pc[s] = "main_153"
  /\ \E up \in Uploads, i \in 1..Len(Voices) :
       /\ uploaded_image' = [uploaded_image EXCEPT ![s] = up]
       /\ voice_type' = [voice_type EXCEPT ![s] =
                           IF tts_available[s] THEN Voices[i] ELSE None]
  /\ pc' = [pc EXCEPT ![s] = "main_158"]
  /\ UNCHANGED <<qwen_available, qwen_model, tts_available, tts_model, image,
                 description, speech_file_path, audio_bytes, genVars, ttsVars,
                 chat_reqs, speech_reqs, reports, uiVars, fileVars>>

MainNoUpload(s) ==
  /\ pc[s] = "main_158"
  /\ uploaded_image[s].kind = "none"
  /\ pc' = [pc EXCEPT ![s] = "done"]
  /\ UNCHANGED <<qwen_available, qwen_model, tts_available, tts_model,
                 widgetVars, description, speech_file_path, audio_bytes,
                 genVars, ttsVars, chat_reqs, speech_reqs, reports, uiVars,
                 fileVars>>

MainOpenRaises(s) ==
  /\ pc[s] = "main_158"
  /\ uploaded_image[s].kind = "corrupt"
  /\ reports' = [reports EXCEPT ![s] = @ \cup {"exception: Image.open"}]
  /\ pc' = [pc EXCEPT ![s] = "crashed"]
  /\ UNCHANGED <<qwen_available, qwen_model, tts_available, tts_model,
                 widgetVars, description, speech_file_path, audio_bytes,
                 genVars, ttsVars, chat_reqs, speech_reqs, uiVars, fileVars>>

MainOpenImage(s) ==
  /\ pc[s] = "main_158"
  /\ uploaded_image[s].kind = "bitmap"
  /\ image' = [image EXCEPT ![s] = uploaded_image[s]]
  /\ pc' = [pc EXCEPT ![s] = "main_162"]
  /\ UNCHANGED <<qwen_available, qwen_model, tts_available, tts_model,
                 uploaded_image, voice_type, description, speech_file_path,
                 audio_bytes, genVars, ttsVars, chat_reqs, speech_reqs,
                 reports, uiVars, fileVars>>

MainNoClick(s) ==
  /\ pc[s] = "main_162"
  /\ pc' = [pc EXCEPT ![s] = "done"]
  /\ UNCHANGED <<qwen_available, qwen_model, tts_available, tts_model,
                 widgetVars, description, speech_file_path, audio_bytes,
                 genVars, ttsVars, chat_reqs, speech_reqs, reports, uiVars,
                 fileVars>>

MainClick(s) ==
  /\ pc[s] = "main_162"
  /\ pc' = [pc EXCEPT ![s] = "gen_entry"]
  /\ UNCHANGED <<qwen_available, qwen_model, tts_available, tts_model,
                 widgetVars, description, speech_file_path, audio_bytes,
                 genVars, ttsVars, chat_reqs, speech_reqs, reports, uiVars,
                 fileVars>>

(***************************************************************************)
(* generate_text_from_image(image, qwen_model), lines 66-91.  encode_image *)
(* is called before the try: what it raises leaves the function and main.  *)
(***************************************************************************)
GenEncodeRaises(s) ==
  /\ pc[s] = "gen_entry"
  /\ ~CanSavePng(image[s])
  /\ reports' = [reports EXCEPT ![s] = @ \cup {"exception: encode_image"}]
  /\ pc' = [pc EXCEPT ![s] = "crashed"]
  /\ UNCHANGED <<qwen_available, qwen_model, tts_available, tts_model,
                 widgetVars, description, speech_file_path, audio_bytes,
                 genVars, ttsVars, chat_reqs, speech_reqs, uiVars, fileVars>>

GenEncode(s) ==
  /\ pc[s] = "gen_entry"
  /\ CanSavePng(image[s])
  /\ base64_image' = [base64_image EXCEPT ![s] = SomeT(encode_image(image[s]))]
  /\ pc' = [pc EXCEPT ![s] = "gen_try"]
  /\ UNCHANGED <<qwen_available, qwen_model, tts_available, tts_model,
                 widgetVars, description, speech_file_path, audio_bytes,
                 response, ttsVars, chat_reqs, speech_reqs, reports, uiVars,
                 fileVars>>

GenReq(s, ok) ==
  ChatReq(qwen_model[s], GenContent(base64_image[s][1]), 500, ok)

\* FirstChoice reading choices[-1]
LastChoice(r) == r[Len(r)]

\* response.choices[0].message.content
FirstChoice(r) == r[1]

\* the backend call raises
GenRequestFail(s) ==
  /\ pc[s] = "gen_try"
  /\ chat_reqs' = [chat_reqs EXCEPT ![s] = Append(@, GenReq(s, FALSE))]
  /\ reports' = [reports EXCEPT ![s] = @ \cup {"error: generating text"}]
  /\ description' = [description EXCEPT ![s] = NoneT]
  /\ pc' = [pc EXCEPT ![s] = "main_166"]
  /\ UNCHANGED <<qwen_available, qwen_model, tts_available, tts_model,
                 widgetVars, speech_file_path, audio_bytes, genVars, ttsVars,
                 speech_reqs, uiVars, fileVars>>

\* the backend answers with no choice: choices[0] raises IndexError in the try
GenNoChoice(s) ==
  /\ pc[s] = "gen_try"
  /\ chat_reqs' = [chat_reqs EXCEPT ![s] = Append(@, GenReq(s, TRUE))]
  /\ response' = [response EXCEPT ![s] = SomeT(<< >>)]
  /\ reports' = [reports EXCEPT ![s] = @ \cup {"error: generating text"}]
  /\ description' = [description EXCEPT ![s] = NoneT]
  /\ pc' = [pc EXCEPT ![s] = "main_166"]
  /\ UNCHANGED <<qwen_available, qwen_model, tts_available, tts_model,
                 widgetVars, speech_file_path, audio_bytes, base64_image,
                 ttsVars, speech_reqs, uiVars, fileVars>>

GenRequestOk(s) ==
  /\ pc[s] = "gen_try"
  /\ \E r \in ChatResponses :
       /\ Len(r) > 0
       /\ response' = [response EXCEPT ![s] = SomeT(r)]
       /\ description' = [description EXCEPT ![s] = FirstChoice(r)]
  /\ chat_reqs' = [chat_reqs EXCEPT ![s] = Append(@, GenReq(s, TRUE))]
  /\ pc' = [pc EXCEPT ![s] = "main_166"]
  /\ UNCHANGED <<qwen_available, qwen_model, tts_available, tts_model,
                 widgetVars, speech_file_path, audio_bytes, base64_image,
                 ttsVars, speech_reqs, reports, uiVars, fileVars>>

generate_text_from_image(s) ==
  \/ GenEncodeRaises(s)
  \/ GenEncode(s)
  \/ GenRequestFail(s)
  \/ GenNoChoice(s)
  \/ GenRequestOk(s)

(***************************************************************************)
(* main, lines 166-172 and 184-185.                                        *)
(***************************************************************************)
MainNoDescription(s) ==
  /\ pc[s] = "main_166"
  /\ ~Truthy(description[s])
  /\ pc' = [pc EXCEPT ![s] = "done"]
  /\ UNCHANGED <<qwen_available, qwen_model, tts_available, tts_model,
                 widgetVars, description, speech_file_path, audio_bytes,
                 genVars, ttsVars, chat_reqs, speech_reqs, reports, uiVars,
                 fileVars>>

\* MainShowNoTts without the test of tts_available: text_to_speech is called
MainShowNoTts_Calls(s) ==
  /\ pc[s] = "main_166"
  /\ Truthy(description[s])
  /\ ~tts_available[s]
  /\ displayed' = [displayed EXCEPT ![s] = description[s]]
  /\ pc' = [pc EXCEPT ![s] = "tts_entry"]
  /\ UNCHANGED <<qwen_available, qwen_model, tts_available, tts_model,
                 widgetVars, description, speech_file_path, audio_bytes,
                 genVars, ttsVars, chat_reqs, speech_reqs, reports, offered,
                 fileVars>>

MainShowNoTts(s) ==
  /\ pc[s] = "main_166"
  /\ Truthy(description[s])
  /\ ~tts_available[s]
  /\ displayed' = [displayed EXCEPT ![s] = description[s]]
  /\ reports' = [reports EXCEPT ![s] = @ \cup {"warning: tts unavailable"}]
  /\ pc' = [pc EXCEPT ![s] = "done"]
  /\ UNCHANGED <<qwen_available, qwen_model, tts_available, tts_model,
                 widgetVars, description, speech_file_path, audio_bytes,
                 genVars, ttsVars, chat_reqs, speech_reqs, offered, fileVars>>

MainShowCallTts(s) ==
  /\ pc[s] = "main_166"
  /\ Truthy(description[s])
  /\ tts_available[s]
  /\ displayed' = [displayed EXCEPT ![s] = description[s]]
  /\ pc' = [pc EXCEPT ![s] = "tts_entry"]
  /\ UNCHANGED <<qwen_available, qwen_model, tts_available, tts_model,
                 widgetVars, description, speech_file_path, audio_bytes,
                 genVars, ttsVars, chat_reqs, speech_reqs, reports, offered,
                 fileVars>>

(***************************************************************************)
(* text_to_speech(description, voice_type, tts_model), lines 94-112.       *)
(* chunks[0] is evaluated inside the try, before the request is sent: an   *)
(* empty text raises IndexError there.  response.stream_to_file opens the  *)
(* path for writing ("wb": created or truncated, position 0) and writes    *)
(* the body piece by piece; a body that breaks off raises.                 *)
(***************************************************************************)
\* OpenedContent for a mode that does not truncate ("r+b")
KeptContent(f) == IF f = NoneT THEN << >> ELSE f[1]

\* open(path, "wb"): what the file holds once opened
OpenedContent(f) == << >>

Zeros(n) == [i \in 1..n |-> 0]
\* write one byte at a position of the file (a gap reads as zeros)
WriteAt(content, off, b) ==
  IF off < Len(content) THEN [content EXCEPT ![off + 1] = b]
  ELSE content \o Zeros(off - Len(content)) \o <<b>>

\* TtsReq sending chunks[-1]
TtsReq_LastChunk(s, ok) ==
  SpeechReq(tts_model[s], voice_type[s],
            chunks(description[s][1])[Len(chunks(description[s][1]))], ok)

TtsReq(s, ok) ==
  SpeechReq(tts_model[s], voice_type[s], chunks(description[s][1])[1], ok)

\* The ways back before any audio: no model (line 96, nothing reported), or
\* in the try an empty chunk list (IndexError, nothing sent) or a request
\* that raises; the except reports the last two.
TtsReturnsNone(s) ==
  /\ pc[s] = "tts_entry"
  /\ IF tts_model[s] = None
       THEN UNCHANGED <<speech_reqs, reports>>
       ELSE /\ reports' = [reports EXCEPT ![s] =
                             @ \cup {"error: text-to-speech"}]
            /\ IF Len(chunks(description[s][1])) = 0
                 THEN UNCHANGED speech_reqs
                 ELSE speech_reqs' = [speech_reqs EXCEPT ![s] =
                                        Append(@, TtsReq(s, FALSE))]
  /\ speech_file_path' = [speech_file_path EXCEPT ![s] = None]
  /\ pc' = [pc EXCEPT ![s] = "main_174"]
  /\ UNCHANGED <<qwen_available, qwen_model, tts_available, tts_model,
                 widgetVars, description, audio_bytes, genVars, ttsVars,
                 chat_reqs, uiVars, fileVars>>

TtsRequestOk(s) ==
  /\ pc[s] = "tts_entry"
  /\ tts_model[s] # None
  /\ Len(chunks(description[s][1])) > 0
  /\ speech_reqs' = [speech_reqs EXCEPT ![s] = Append(@, TtsReq(s, TRUE))]
  /\ \E a \in Audios : tts_response' = [tts_response EXCEPT ![s] = SomeT(a)]
  /\ pc' = [pc EXCEPT ![s] = "tts_open"]
  /\ UNCHANGED <<qwen_available, qwen_model, tts_available, tts_model,
                 widgetVars, description, speech_file_path, audio_bytes,
                 genVars, offset, chat_reqs, reports, uiVars, fileVars>>

TtsOpen(s) ==
  /\ pc[s] = "tts_open"
  /\ file' = SomeT(OpenedContent(file))
  /\ offset' = [offset EXCEPT ![s] = 0]
  /\ file_writers' = {s}
  /\ pc' = [pc EXCEPT ![s] = "tts_write"]
  /\ UNCHANGED <<qwen_available, qwen_model, tts_available, tts_model,
                 widgetVars, description, speech_file_path, audio_bytes,
                 genVars, tts_response, chat_reqs, speech_reqs, reports,
                 uiVars>>

TtsWrite(s) ==
  /\ pc[s] = "tts_write"
  /\ offset[s] < Len(tts_response[s][1])
  /\ file' = SomeT(WriteAt(file[1], offset[s],
                           tts_response[s][1][offset[s] + 1]))
  /\ offset' = [offset EXCEPT ![s] = @ + 1]
  /\ file_writers' = file_writers \cup {s}
  /\ UNCHANGED <<pc, qwen_available, qwen_model, tts_available, tts_model,
                 widgetVars, description, speech_file_path, audio_bytes,
                 genVars, tts_response, chat_reqs, speech_reqs, reports,
                 uiVars>>

\* the body breaks off before its end: stream_to_file raises, the try catches
TtsStreamRaises(s) ==
  /\ pc[s] = "tts_write"
  /\ offset[s] < Len(tts_response[s][1])
  /\ reports' = [reports EXCEPT ![s] = @ \cup {"error: text-to-speech"}]
  /\ speech_file_path' = [speech_file_path EXCEPT ![s] = None]
  /\ pc' = [pc EXCEPT ![s] = "main_174"]
  /\ UNCHANGED <<qwen_available, qwen_model, tts_available, tts_model,
                 widgetVars, description, audio_bytes, genVars, ttsVars,
                 chat_reqs, speech_reqs, uiVars, fileVars>>

TtsClose(s) ==
  /\ pc[s] = "tts_write"
  /\ offset[s] = Len(tts_response[s][1])
  /\ speech_file_path' = [speech_file_path EXCEPT ![s] = SpeechPath]
  /\ pc' = [pc EXCEPT ![s] = "main_174"]
  /\ UNCHANGED <<qwen_available, qwen_model, tts_available, tts_model,
                 widgetVars, description, audio_bytes, genVars, ttsVars,
                 chat_reqs, speech_reqs, reports, uiVars, fileVars>>

text_to_speech(s) ==
  \/ TtsReturnsNone(s)
  \/ TtsRequestOk(s)
  \/ TtsOpen(s)
  \/ TtsWrite(s)
  \/ TtsStreamRaises(s)
  \/ TtsClose(s)

(***************************************************************************)
(* main, lines 174-183: the file is opened again by its path and read      *)
(* whole; what was read is what the player and the download carry.         *)
(***************************************************************************)
\* ReadAll as read(1)
ReadOne(content) == SubSeq(content, 1, Min(1, Len(content)))

\* audio_file.read()
ReadAll(content) == content

MainNoAudio(s) ==
  /\ pc[s] = "main_174"
  /\ speech_file_path[s] = None
  /\ pc' = [pc EXCEPT ![s] = "done"]
  /\ UNCHANGED <<qwen_available, qwen_model, tts_available, tts_model,
                 widgetVars, description, speech_file_path, audio_bytes,
                 genVars, ttsVars, chat_reqs, speech_reqs, reports, uiVars,
                 fileVars>>

MainReadOffer(s) ==
  /\ pc[s] = "main_174"
  /\ speech_file_path[s] # None
  /\ audio_bytes' = [audio_bytes EXCEPT ![s] = SomeT(ReadAll(file[1]))]
  /\ offered' = [offered EXCEPT ![s] = TRUE]
  /\ pc' = [pc EXCEPT ![s] = "done"]
  /\ UNCHANGED <<qwen_available, qwen_model, tts_available, tts_model,
                 widgetVars, description, speech_file_path, genVars, ttsVars,
                 chat_reqs, speech_reqs, reports, displayed, fileVars>>

main(s) ==
  \/ MainStart(s)
  \/ MainNoVision(s)
  \/ MainVision(s)
  \/ MainWidgets(s)
  \/ MainNoUpload(s)
  \/ MainOpenRaises(s)
  \/ MainOpenImage(s)
  \/ MainNoClick(s)
  \/ MainClick(s)
  \/ MainNoDescription(s)
  \/ MainShowNoTts(s)
  \/ MainShowCallTts(s)
  \/ MainNoAudio(s)
  \/ MainReadOffer(s)

Run(s) ==
  \/ main(s)
  \/ check_qwen_model_availability(s)
  \/ check_openai_tts_availability(s)
  \/ generate_text_from_image(s)
  \/ text_to_speech(s)

(***************************************************************************)
(* Spec: one session, run after run.                                       *)
(***************************************************************************)
Next == Run(MainSession)
Spec == Init /\ [][Next]_vars

(***************************************************************************)
(* SpecConcurrent: every session has run main up to line 172 (primary      *)
(* model, speech available, an RGB upload, the selector's first voice, a   *)
(* two-character description shown) and calls text_to_speech; their steps  *)
(* from there to the end of the run interleave.                            *)
(***************************************************************************)
SharedDescription == SomeT(<<72, 105>>)

InitConcurrent ==
  /\ pc = Fresh("tts_entry")
  /\ qwen_available = Fresh(TRUE) /\ qwen_model = Fresh(PrimaryModel)
  /\ tts_available = Fresh(TRUE) /\ tts_model = Fresh(TtsModel)
  /\ uploaded_image = Fresh(RgbUpload) /\ image = Fresh(RgbUpload)
  /\ voice_type = Fresh(Voices[1])
  /\ description = Fresh(SharedDescription)
  /\ speech_file_path = Fresh(None)
  /\ audio_bytes = Fresh(NoneT)
  /\ base64_image = Fresh(SomeT(encode_image(RgbUpload)))
  /\ response = Fresh(SomeT(<<SharedDescription>>))
  /\ tts_response = Fresh(NoneT) /\ offset = Fresh(0)
  /\ chat_reqs =
       Fresh(<<ChatReq(PrimaryModel, ProbeContent, 1, TRUE),
               ChatReq(PrimaryModel, GenContent(encode_image(RgbUpload)),
                       500, TRUE)>>)
  /\ speech_reqs = Fresh(<<SpeechReq(TtsModel, ProbeVoice, TestText, TRUE)>>)
  /\ reports = Fresh({"success: using vision model"})
  /\ displayed = Fresh(SharedDescription) /\ offered = Fresh(FALSE)
  /\ file = NoneT
  /\ file_writers = {}

NextConcurrent ==
  \E s \in Sessions : text_to_speech(s) \/ MainNoAudio(s) \/ MainReadOffer(s)
SpecConcurrent == InitConcurrent /\ [][NextConcurrent]_vars

(***************************************************************************)
(* SpecTTS: text_to_speech called on its own, with any text up to          *)
(* MaxChunks chunks and a character more, any voice, the model or none,    *)
(* and speech.mp3 absent or left by an earlier call.                       *)
(***************************************************************************)
TextSeeds == {1, 3}
TextOf(n, k) == [i \in 1..n |-> 97 + ((i * k) % 26)]
TextLens ==
  {0, 1} \cup {c * max_length + d : c \in 1..MaxChunks, d \in {-1, 0, 1}}
TtsTexts == {TextOf(n, k) : n \in TextLens, k \in TextSeeds}
LeftoverFile == SomeT(<<99, 99, 99, 99>>)

InitTTS ==
  /\ pc = [s \in Sessions |-> IF s = MainSession THEN "tts_entry" ELSE "idle"]
  /\ qwen_available = Fresh(FALSE) /\ qwen_model = Fresh(None)
  /\ \E m \in {TtsModel, None} :
       /\ tts_model = [Fresh(None) EXCEPT ![MainSession] = m]
       /\ tts_available = [Fresh(FALSE) EXCEPT ![MainSession] = (m # None)]
  /\ uploaded_image = Fresh(NoUpload) /\ image = Fresh(NoUpload)
  /\ \E v \in VoiceSet : voice_type = [Fresh(None) EXCEPT ![MainSession] = v]
  /\ \E t \in TtsTexts :
       description = [Fresh(NoneT) EXCEPT ![MainSession] = SomeT(t)]
  /\ speech_file_path = Fresh(None)
  /\ audio_bytes = Fresh(NoneT)
  /\ base64_image = Fresh(NoneT) /\ response = Fresh(NoneT)
  /\ tts_response = Fresh(NoneT) /\ offset = Fresh(0)
  /\ chat_reqs = Fresh(<< >>) /\ speech_reqs = Fresh(<< >>)
  /\ reports = Fresh({})
  /\ displayed = Fresh(NoneT) /\ offered = Fresh(FALSE)
  /\ file \in {NoneT, LeftoverFile}
  /\ file_writers = {}

NextTTS == text_to_speech(MainSession)
SpecTTS == InitTTS /\ [][NextTTS]_vars

(***************************************************************************)
(* The claims.                                                             *)
(***************************************************************************)
SixVoices == {"alloy", "echo", "fable", "onyx", "nova", "shimmer"}
InTts(s) == pc[s] \in {"tts_entry", "tts_open", "tts_write"}
NonEmptyText(d) == d # NoneT /\ Len(d[1]) >= 1
PrimarySucceeded(s) ==
  /\ Len(chat_reqs[s]) >= 1
  /\ chat_reqs[s][1].model = PrimaryModel
  /\ chat_reqs[s][1].ok
BothProbesFailed(s) ==
  /\ Len(chat_reqs[s]) >= 2
  /\ chat_reqs[s][1].model = PrimaryModel /\ ~chat_reqs[s][1].ok
  /\ chat_reqs[s][2].model = FallbackModel /\ ~chat_reqs[s][2].ok
  /\ chat_reqs[s][2].max_tokens = 1
SpeechProbeFailed(s) ==
  /\ Len(speech_reqs[s]) >= 1
  /\ speech_reqs[s][1].input = TestText
  /\ ~speech_reqs[s][1].ok

\* C1: in a run whose request to the primary model succeeded, no request of
\* the run names the fallback model, and the probe's result is (available,
\* primary model).
C1_PrimaryOkNoFallback ==
  \A s \in Sessions :
    PrimarySucceeded(s) =>
      /\ \A i \in 1..Len(chat_reqs[s]) : chat_reqs[s][i].model # FallbackModel
      /\ qwen_available[s]
      /\ qwen_model[s] = "qwen2-vl-7b-instruct"

\* a run that probed the primary model with success and went on to generate
C1_Witness ==
  /\ pc[MainSession] = "done"
  /\ PrimarySucceeded(MainSession)
  /\ Len(chat_reqs[MainSession]) = 2
  /\ chat_reqs[MainSession][2].max_tokens = 500

\* C2: in a run whose primary and fallback probe requests both failed, the
\* probe's result is (unavailable, none), the run sends no generation
\* request and stops at line 145, and it ends with vision-unavailable
\* reported, whatever the widgets hold.
C2_BothFailNoGeneration ==
  \A s \in Sessions :
    BothProbesFailed(s) =>
      /\ ~qwen_available[s]
      /\ qwen_model[s] = None
      /\ Len(chat_reqs[s]) = 2
      /\ pc[s] \in {"main_143", "done"}
      /\ pc[s] = "done" => "error: no vision model" \in reports[s]
      /\ description[s] = NoneT /\ displayed[s] = NoneT

C2_Witness ==
  /\ pc[MainSession] = "done"
  /\ BothProbesFailed(MainSession)
  /\ "error: no vision model" \in reports[MainSession]

\* C3: in a run whose speech probe failed, the probe request stays the only
\* request to the speech backend, text_to_speech is not entered, no audio is
\* read or offered, and a non-empty description that generation returned is
\* what the finished run displays.
C3_NoSpeechStillDescribes ==
  \A s \in Sessions :
    SpeechProbeFailed(s) =>
      /\ Len(speech_reqs[s]) = 1
      /\ ~InTts(s)
      /\ ~offered[s] /\ audio_bytes[s] = NoneT /\ speech_file_path[s] = None
      /\ (pc[s] = "done" /\ NonEmptyText(description[s]))
           => displayed[s] = description[s]

\* upload and click with the speech backend down: the description is shown
C3_Witness ==
  /\ pc[MainSession] = "done"
  /\ SpeechProbeFailed(MainSession)
  /\ Len(chat_reqs[MainSession]) >= 2
  /\ chat_reqs[MainSession][Len(chat_reqs[MainSession])].max_tokens = 500
  /\ NonEmptyText(displayed[MainSession])
  /\ ~offered[MainSession]

\* C4: text_to_speech with a model and a text of more than 4096 characters
\* sends at most one request, exactly one once it is past the call, and the
\* request's input is the text's first 4096 characters and no more.
C4_FirstChunkOnly ==
  \A s \in Sessions :
    (description[s] # NoneT /\ tts_model[s] # None
       /\ Len(description[s][1]) > 4096) =>
      /\ Len(speech_reqs[s]) <= 1
      /\ pc[s] # "tts_entry" => Len(speech_reqs[s]) = 1
      /\ \A k \in 1..Len(speech_reqs[s]) :
           /\ Len(speech_reqs[s][k].input) = 4096
           /\ speech_reqs[s][k].input = SubSeq(description[s][1], 1, 4096)

\* a text of two chunks and a character more, synthesized and written
C4_Witness ==
  /\ pc[MainSession] = "main_174"
  /\ speech_file_path[MainSession] = SpeechPath
  /\ Len(description[MainSession][1]) > 2 * 4096
  /\ Len(speech_reqs[MainSession]) = 1
  /\ Len(speech_reqs[MainSession][1].input) = 4096

\* C5: when generate_text_from_image returns (with an image PNG can hold
\* and the probed model), its result is the first choice's text if the
\* backend answered with a non-empty first choice, and none if the backend
\* call raised.
C5_FirstChoiceOrNone ==
  \A s \in Sessions :
    pc[s] = "main_166" =>
      LET req == chat_reqs[s][Len(chat_reqs[s])] IN
      /\ CanSavePng(image[s])
      /\ req.max_tokens = 500 /\ req.model = qwen_model[s]
      /\ qwen_model[s] \in {PrimaryModel, FallbackModel}
      /\ ~req.ok => description[s] = NoneT
      /\ (req.ok /\ Len(response[s][1]) >= 1
            /\ NonEmptyText(response[s][1][1]))
           => description[s] = response[s][1][1]

\* two choices with different texts: the first is returned
C5_Witness ==
  /\ pc[MainSession] = "main_166"
  /\ response[MainSession] # NoneT
  /\ Len(response[MainSession][1]) = 2
  /\ NonEmptyText(response[MainSession][1][1])
  /\ NonEmptyText(response[MainSession][1][2])
  /\ response[MainSession][1][1] # response[MainSession][1][2]
  /\ description[MainSession] = response[MainSession][1][1]

\* C6: no failure inside generate_text_from_image leaves it as an exception:
\* the run never ends with encode_image's exception uncaught.
C6_GenerateNeverRaises ==
  \A s \in Sessions :
    ~(pc[s] = "crashed" /\ "exception: encode_image" \in reports[s])

\* C7: with one session, whenever text_to_speech has returned the path, and
\* to the end of that run, speech.mp3 holds exactly the bytes of that call's
\* response.
C7_LastWriteWins ==
  \A s \in Sessions :
    (pc[s] \in {"main_174", "done"} /\ speech_file_path[s] # None) =>
      /\ file # NoneT
      /\ Len(file[1]) = Len(tts_response[s][1])
      /\ \A i \in 1..Len(file[1]) : file[1][i] = tts_response[s][1][i]

\* a one-byte response written and returned
C7_Witness ==
  /\ pc[MainSession] = "main_174"
  /\ speech_file_path[MainSession] = SpeechPath
  /\ Len(tts_response[MainSession][1]) = 1
  /\ file = tts_response[MainSession]

\* C8: every request to the speech backend carries one of the six voices,
\* and text_to_speech is only ever entered with one of them.
C8_VoiceIsEnumerated ==
  \A s \in Sessions :
    /\ \A i \in 1..Len(speech_reqs[s]) : speech_reqs[s][i].voice \in SixVoices
    /\ InTts(s) => voice_type[s] \in SixVoices

\* a synthesis request from main with the last voice of the selector
C8_Witness ==
  /\ Len(speech_reqs[MainSession]) = 2
  /\ speech_reqs[MainSession][2].voice = "shimmer"
  /\ speech_reqs[MainSession][2].ok

C9_State ==
  \A s \in Sessions :
    (InTts(s) \/ Len(speech_reqs[s]) >= 2 \/ speech_file_path[s] # None
       \/ offered[s] \/ audio_bytes[s] # NoneT)
      => NonEmptyText(description[s])
C9_Step ==
  file' # file =>
    \E s \in Sessions :
      pc[s] \in {"tts_open", "tts_write"} /\ NonEmptyText(description[s])

\* C9: text_to_speech is entered, a synthesis request sent, a path returned
\* and audio read or offered only in a run whose description is a non-empty
\* text, and speech.mp3 changes only in a step of such a run.
C9_SynthesisOnlyAfterDescription == []C9_State /\ [][C9_Step]_vars

\* generation answered with an empty text, speech available, a file from an
\* earlier run on disk: the run ends with nothing synthesized or offered
C9_Witness ==
  /\ pc[MainSession] = "done"
  /\ tts_available[MainSession]
  /\ description[MainSession] = SomeT(<< >>)
  /\ Len(speech_reqs[MainSession]) = 1
  /\ ~offered[MainSession]
  /\ file # NoneT

\* C10: the bytes a session offers are the bytes speech.mp3 held when it
\* read the file back, and they are its own response's bytes when no other
\* session opened or wrote the file since this session opened it.
C10_OffersWhatTheFileHolds ==
  [][\A s \in Sessions :
       (pc[s] = "main_174" /\ pc'[s] = "done" /\ speech_file_path[s] # None)
         => /\ offered'[s]
            /\ audio_bytes'[s] = file
            /\ file_writers = {s} => audio_bytes'[s] = tts_response[s]]_vars

\* a session whose synthesis succeeded offers the other session's bytes
C10_Witness ==
  \E s, t \in Sessions :
    /\ s # t
    /\ pc[s] = "done" /\ offered[s] /\ speech_file_path[s] = SpeechPath
    /\ speech_file_path[t] = SpeechPath
    /\ audio_bytes[s] = tts_response[t]
    /\ audio_bytes[s] # tts_response[s]
====
